---- MODULE Spec2Model ----
(***************************************************************************)
(* Model of RailwayDateAPI (src/railway-calendar.jsx): the railway-year    *)
(* calendar converter, the payroll cycle, the holiday table with its       *)
(* Easter computation, and the day-length and moon-phase estimators.       *)
(*                                                                         *)
(* A JavaScript Date is an instant.  The model keeps it as a whole number  *)
(* of HOURS since 1970-01-01T00:00Z (every Date passed to or returned by   *)
(* the engine is a whole hour: local midnights, local noons, and a zone    *)
(* offset of 0 or 1 hour), so the code's "/ (1000 * 60 * 60 * 24)" is a    *)
(* division by 24.  The one instant that is not a whole hour, the          *)
(* reference new moon of getMoonPhase, is kept in minutes.                 *)
(* The Date methods work in the local time zone of the environment, which  *)
(* is the variable tz: "UTC" (no daylight saving) or "Europe/London" (the  *)
(* zone the README states, GMT in winter and GMT+1 in summer).             *)
(***************************************************************************)
EXTENDS Integers, Sequences, FiniteSets, TLC

VARIABLES tz, op, arg, ret

vars == <<tz, op, arg, ret>>

(***************************************************************************)
(* Bounds of the exploration.                                              *)
(***************************************************************************)
MinYear == 2022
MaxYear == 2029

Years == MinYear..MaxYear

\* the years whose holiday table is asked for
MinHolidayYear == 2000
MaxHolidayYear == 2100

HolidayYears == MinHolidayYear..MaxHolidayYear

\* the engine calls a caller makes on one Date object, at most
MaxCalls == 3

TimeZones == {"UTC", "Europe/London"}

\* local times of day (hours) an input Date may carry
Hours == {0, 12}

(***************************************************************************)
(* The proleptic Gregorian calendar behind Date: day numbers count days    *)
(* from 1970-01-01 (day 0, a Thursday); months are 1..12 here.             *)
(* Intermediate values are handed on as operator parameters.               *)
(***************************************************************************)
DaysFromCivil(y, m, d) ==
  LET fromEra(yy, era, mp) ==
        era * 146097
          + (yy - era * 400) * 365 + (yy - era * 400) \div 4 - (yy - era * 400) \div 100
          + (153 * mp + 2) \div 5 + d - 1
          - 719468
      shifted(yy, mp) == fromEra(yy, yy \div 400, mp)
  IN  shifted(IF m <= 2 THEN y - 1 ELSE y, IF m > 2 THEN m - 3 ELSE m + 9)

CivilFromDays(z) ==
  LET civil(yoe, era, doy, mp) ==
        [year  |-> yoe + era * 400 + (IF mp >= 10 THEN 1 ELSE 0),
         month |-> IF mp < 10 THEN mp + 3 ELSE mp - 9,
         day   |-> doy - (153 * mp + 2) \div 5 + 1]
      fromDoy(yoe, era, doy) == civil(yoe, era, doy, (5 * doy + 2) \div 153)
      fromYoe(yoe, era, doe) ==
        fromDoy(yoe, era, doe - (365 * yoe + yoe \div 4 - yoe \div 100))
      fromDoe(era, doe) ==
        fromYoe((doe - doe \div 1460 + doe \div 36524 - doe \div 146096) \div 365, era, doe)
      fromEra(zz, era) == fromDoe(era, zz - era * 146097)
      shifted(zz) == fromEra(zz, zz \div 146097)
  IN  shifted(z + 719468)

\* weekday of a day number, 0 = Sunday .. 6 = Saturday (Date.prototype.getDay)
WeekdayOfDay(z) == (z + 4) % 7

\* the last Sunday of month m of year y, as a day number
LastSundayOf(y, m) ==
  LET back(last) == last - WeekdayOfDay(last)
  IN  back(DaysFromCivil(y, m + 1, 1) - 1)

(***************************************************************************)
(* The zone.  Europe/London is on GMT+1 from 01:00Z on the last Sunday of  *)
(* March to 01:00Z on the last Sunday of October, i.e. from 02:00 local    *)
(* time (01:00 GMT) to 02:00 local time (01:00 GMT).                       *)
(***************************************************************************)
\* hour stamp h of year y lies in summer time, the switches being at hour
\* `edge` of the two last Sundays
InSummerTime(y, h, edge) ==
  /\ tz = "Europe/London"
  /\ h >= LastSundayOf(y, 3) * 24 + edge
  /\ h <  LastSundayOf(y, 10) * 24 + edge

\* offset (hours east of UTC) in force at instant t
UtcOffset(t) == IF InSummerTime(CivilFromDays(t \div 24).year, t, 1) THEN 1 ELSE 0

\* offset in force at local wall-clock time (day, hr)
LocalOffset(day, hr) ==
  IF InSummerTime(CivilFromDays(day).year, day * 24 + hr, 2) THEN 1 ELSE 0

\* the instant of local wall-clock time (day, hr)
FromLocal(day, hr) == day * 24 + hr - LocalOffset(day, hr)

\* local calendar day and local hour of an instant
LocalDay(t)  == (t + UtcOffset(t)) \div 24
LocalHour(t) == (t + UtcOffset(t)) % 24

\* new Date(year, monthIndex, day): local midnight; monthIndex is 0-based and
\* month and day overflow into the neighbouring months and years
NewDate(y, m0, d) ==
  FromLocal(DaysFromCivil(y + m0 \div 12, (m0 % 12) + 1, 1) + d - 1, 0)

getFullYear(t) == CivilFromDays(LocalDay(t)).year
getMonth(t)    == CivilFromDays(LocalDay(t)).month - 1
getDate(t)     == CivilFromDays(LocalDay(t)).day
getDay(t)      == WeekdayOfDay(LocalDay(t))

\* d.setHours(0, 0, 0, 0)
setHoursZero(t) == FromLocal(LocalDay(t), 0)

\* d.setDate(d.getDate() + n): n days later at the same local time of day
addDate(t, n) == FromLocal(LocalDay(t) + n, LocalHour(t))

(***************************************************************************)
(* JavaScript arithmetic on the numbers involved.                          *)
(***************************************************************************)
\* a % b of JavaScript, b > 0: the remainder takes the sign of the dividend
JsRem(a, b) == IF a >= 0 THEN a % b ELSE 0 - ((0 - a) % b)

\* Math.floor(h / (1000*60*60*24)) and Math.round(...) of a span of h hours
FloorDays(h) == h \div 24
RoundDays(h) == (h + 12) \div 24

\* Math.ceil(a / b), b > 0
CeilDiv(a, b) == 0 - ((0 - a) \div b)

Min(a, b) == IF a <= b THEN a ELSE b

(***************************************************************************)
(* RailwayDateAPI.  The code's consts appear as the parameters of local    *)
(* operators, in the order the code computes them.                         *)
(***************************************************************************)
getWeekOneStart_noPlusOne(railwayYear) ==
  LET lastSaturday(daysToGoBack) == NewDate(railwayYear, 2, 31 - daysToGoBack)
      goBack(dayOfWeek) == lastSaturday(dayOfWeek % 7)
      from(lastDayOfMarch) == goBack(getDay(lastDayOfMarch))
  IN  from(NewDate(railwayYear, 2, 31))

getWeekOneStart(railwayYear) ==
  LET lastSaturday(daysToGoBack) == NewDate(railwayYear, 2, 31 - daysToGoBack)
      goBack(dayOfWeek) == lastSaturday((dayOfWeek + 1) % 7)
      from(lastDayOfMarch) == goBack(getDay(lastDayOfMarch))
  IN  from(NewDate(railwayYear, 2, 31))

getTotalWeeks_floor(railwayYear) ==
  LET weeks(days) == days \div 7
      span(thisYearStart, nextYearStart) == weeks(FloorDays(nextYearStart - thisYearStart))
  IN  span(getWeekOneStart(railwayYear), getWeekOneStart(railwayYear + 1))

getTotalWeeks(railwayYear) ==
  LET weeks(days) == days \div 7
      span(thisYearStart, nextYearStart) == weeks(RoundDays(nextYearStart - thisYearStart))
  IN  span(getWeekOneStart(railwayYear), getWeekOneStart(railwayYear + 1))

DayNames == <<"Saturday", "Sunday", "Monday", "Tuesday", "Wednesday", "Thursday", "Friday">>

\* lines 275-290 of dateToRailway: the railway year a normalised date d
\* belongs to, and that year's week-one start
resolveRailwayYear_dropPrev(d) ==
  LET inYear(calYear) ==
        [railwayYear |-> calYear, weekOneStart |-> getWeekOneStart(calYear)]
  IN  inYear(getFullYear(d))

resolveRailwayYear_lte(d) ==
  LET decide(calYear, calStart) ==
        IF d <= calStart
        THEN [railwayYear |-> calYear - 1, weekOneStart |-> getWeekOneStart(calYear - 1)]
        ELSE [railwayYear |-> calYear, weekOneStart |-> calStart]
      inYear(calYear) == decide(calYear, getWeekOneStart(calYear))
  IN  inYear(getFullYear(d))

\* with nextYearStart taken from railwayYear instead of railwayYear + 1
resolveRailwayYear_rollAtOwnStart(d) ==
  LET decide(calYear, calStart, nextYearStart) ==
        IF d < calStart
        THEN [railwayYear |-> calYear - 1, weekOneStart |-> getWeekOneStart(calYear - 1)]
        ELSE IF d >= nextYearStart
             THEN [railwayYear |-> calYear + 1, weekOneStart |-> nextYearStart]
             ELSE [railwayYear |-> calYear, weekOneStart |-> calStart]
      inYear(calYear) ==
        decide(calYear, getWeekOneStart(calYear), getWeekOneStart(calYear))
  IN  inYear(getFullYear(d))

resolveRailwayYear(d) ==
  LET decide(calYear, calStart, nextYearStart) ==
        IF d < calStart
        THEN [railwayYear |-> calYear - 1, weekOneStart |-> getWeekOneStart(calYear - 1)]
        ELSE IF d >= nextYearStart
             THEN [railwayYear |-> calYear + 1, weekOneStart |-> nextYearStart]
             ELSE [railwayYear |-> calYear, weekOneStart |-> calStart]
      inYear(calYear) ==
        decide(calYear, getWeekOneStart(calYear), getWeekOneStart(calYear + 1))
  IN  inYear(getFullYear(d))

dateToRailway(date) ==
  LET coordinate(railwayYear, weekOneStart, railWeek, dayOfRailWeek) ==
        [railwayYear   |-> railwayYear,
         railWeek      |-> railWeek,
         dayOfRailWeek |-> dayOfRailWeek,
         period        |-> CeilDiv(railWeek, 4),
         weekInPeriod  |-> JsRem(railWeek - 1, 4) + 1,
         totalWeeks    |-> getTotalWeeks(railwayYear),
         weekOneStart  |-> weekOneStart,
         dayName       |-> DayNames[dayOfRailWeek],
         \* `${railwayYear}/${(railwayYear + 1).toString().slice(-2)}`:
         \* the year and the last two digits of the next one
         railwayYearDisplay |-> <<railwayYear, (railwayYear + 1) % 100>>]
      fromDays(railwayYear, weekOneStart, daysDiff) ==
        coordinate(railwayYear, weekOneStart, daysDiff \div 7 + 1, JsRem(daysDiff, 7) + 1)
      fromYear(d, resolved) ==
        fromDays(resolved.railwayYear, resolved.weekOneStart,
                 FloorDays(d - resolved.weekOneStart))
      normalised(d) == fromYear(d, resolveRailwayYear(d))
  IN  normalised(setHoursZero(date))

\* the weeks added as spans of 7 * 24 hours, not as calendar days
railwayToDateRange_hours(railwayYear, railWeek) ==
  LET range(startDate) == [startDate |-> startDate, endDate |-> startDate + 6 * 24]
      from(weekOneStart) == range(weekOneStart + (railWeek - 1) * 7 * 24)
  IN  from(getWeekOneStart(railwayYear))

railwayToDateRange(railwayYear, railWeek) ==
  LET range(startDate) == [startDate |-> startDate, endDate |-> addDate(startDate, 6)]
      from(weekOneStart) == range(addDate(weekOneStart, (railWeek - 1) * 7))
  IN  from(getWeekOneStart(railwayYear))

\* startWeek without the + 1
getPeriodDates_startWeekZeroBased(railwayYear, period) ==
  LET dates(startWeek, endWeek) ==
        [startDate |-> railwayToDateRange(railwayYear, startWeek).startDate,
         endDate   |-> railwayToDateRange(railwayYear, endWeek).endDate,
         startWeek |-> startWeek,
         endWeek   |-> endWeek]
  IN  dates((period - 1) * 4, Min(period * 4, getTotalWeeks(railwayYear)))

getPeriodDates(railwayYear, period) ==
  LET dates(startWeek, endWeek) ==
        [startDate |-> railwayToDateRange(railwayYear, startWeek).startDate,
         endDate   |-> railwayToDateRange(railwayYear, endWeek).endDate,
         startWeek |-> startWeek,
         endWeek   |-> endWeek]
  IN  dates((period - 1) * 4 + 1, Min(period * 4, getTotalWeeks(railwayYear)))

\* new Date(2025, 11, 5)
referencePayday == NewDate(2025, 11, 5)

isPayday_floor(date) ==
  LET test(daysDiff) == JsRem(daysDiff, 28) = 0
      from(d) == test(FloorDays(d - referencePayday))
  IN  from(setHoursZero(date))

isPayday(date) ==
  LET test(daysDiff) == JsRem(daysDiff, 28) = 0
      from(d) == test(RoundDays(d - referencePayday))
  IN  from(setHoursZero(date))

\* without "if (daysUntilPayday === 28) daysUntilPayday = 0"
getNextPayday_noReset(fromDate) ==
  LET next(d, daysUntilPayday) == addDate(d, daysUntilPayday)
      until(d, daysDiff) == next(d, 28 - JsRem(daysDiff, 28))
      from(d) == until(d, RoundDays(d - referencePayday))
  IN  from(setHoursZero(fromDate))

getNextPayday(fromDate) ==
  LET next(d, daysUntilPayday) ==
        \* if (daysUntilPayday === 28) daysUntilPayday = 0
        addDate(d, IF daysUntilPayday = 28 THEN 0 ELSE daysUntilPayday)
      until(d, daysDiff) == next(d, 28 - JsRem(daysDiff, 28))
      from(d) == until(d, RoundDays(d - referencePayday))
  IN  from(setHoursZero(fromDate))


\* without the correction m of the late full moons
getEasterSunday_noM(year) ==
  LET date(n) == NewDate(year, n \div 31 - 1, (n % 31) + 1)
      fromL(h, l) == date(h + l + 114)
      fromH(e, i, k, h) == fromL(h, (32 + 2 * e + 2 * i - h - k) % 7)
      fromG(a, b, c, d, g) ==
        fromH(b % 4, c \div 4, c % 4, (19 * a + b - d - g + 15) % 30)
      fromF(a, b, c, f) == fromG(a, b, c, b \div 4, (b - f + 1) \div 3)
      fromB(a, b, c) == fromF(a, b, c, (b + 8) \div 25)
  IN  fromB(year % 19, year \div 100, year % 100)

\* month index one too high: the 1-based month of the algorithm handed to Date
getEasterSunday_monthOneBased(year) ==
  LET date(n) == NewDate(year, n \div 31, (n % 31) + 1)
      fromM(h, l, m) == date(h + l - 7 * m + 114)
      fromL(a, h, l) == fromM(h, l, (a + 11 * h + 22 * l) \div 451)
      fromH(a, e, i, k, h) == fromL(a, h, (32 + 2 * e + 2 * i - h - k) % 7)
      fromG(a, b, c, d, g) ==
        fromH(a, b % 4, c \div 4, c % 4, (19 * a + b - d - g + 15) % 30)
      fromF(a, b, c, f) == fromG(a, b, c, b \div 4, (b - f + 1) \div 3)
      fromB(a, b, c) == fromF(a, b, c, (b + 8) \div 25)
  IN  fromB(year % 19, year \div 100, year % 100)

getEasterSunday(year) ==
  LET \* month = floor(n / 31) - 1 (0-based), day = (n % 31) + 1
      date(n) == NewDate(year, n \div 31 - 1, (n % 31) + 1)
      fromM(h, l, m) == date(h + l - 7 * m + 114)
      fromL(a, h, l) == fromM(h, l, (a + 11 * h + 22 * l) \div 451)
      fromH(a, e, i, k, h) == fromL(a, h, (32 + 2 * e + 2 * i - h - k) % 7)
      fromG(a, b, c, d, g) ==
        fromH(a, b % 4, c \div 4, c % 4, (19 * a + b - d - g + 15) % 30)
      fromF(a, b, c, f) == fromG(a, b, c, b \div 4, (b - f + 1) \div 3)
      fromB(a, b, c) == fromF(a, b, c, (b + 8) \div 25)
  IN  fromB(year % 19, year \div 100, year % 100)


(***************************************************************************)
(* getUKBankHolidays.  An entry is the code's { date, name, emoji, type }   *)
(* without the emoji, a display glyph nothing is computed from.            *)
(***************************************************************************)
\* result.setDate(days): the day of the month replaced, nothing added
addDays_setOnly(date, days) == NewDate(getFullYear(date), getMonth(date), days)

\* const result = new Date(date); result.setDate(result.getDate() + days)
addDays(date, days) == addDate(date, days)

\* dayOffset without the + 7: JavaScript's % keeps a negative difference
getNthWeekday_noPlusSeven(year, month, weekday, n) ==
  LET nth(dayOffset) == NewDate(year, month, 1 + dayOffset + (n - 1) * 7)
      fromFirst(first) == nth(JsRem(weekday - getDay(first), 7))
      nthLast(dayOffset) == NewDate(year, month + 1, (0 - dayOffset) + (n + 1) * 7)
      fromLast(last) == nthLast(JsRem(getDay(last) - weekday, 7))
  IN  IF n > 0
      THEN fromFirst(NewDate(year, month, 1))
      ELSE fromLast(NewDate(year, month + 1, 0))

getNthWeekday(year, month, weekday, n) ==
  LET nth(dayOffset) == NewDate(year, month, 1 + dayOffset + (n - 1) * 7)
      fromFirst(first) == nth((weekday - getDay(first) + 7) % 7)
      nthLast(dayOffset) == NewDate(year, month + 1, (0 - dayOffset) + (n + 1) * 7)
      fromLast(last) == nthLast((getDay(last) - weekday + 7) % 7)
  IN  IF n > 0
      THEN fromFirst(NewDate(year, month, 1))
      ELSE fromLast(NewDate(year, month + 1, 0))

\* New Year's Day: the two ifs run one after the other on the current nyd
nyd(year) ==
  LET second(n) == IF getDay(n) = 6 THEN NewDate(year, 0, 3) ELSE n
      first(n) == second(IF getDay(n) = 0 THEN NewDate(year, 0, 2) ELSE n)
  IN  first(NewDate(year, 0, 1))

\* a Saturday Christmas left where it is
xmas_keepSaturday(year) ==
  LET pick(xmasDay) ==
        IF xmasDay = 0 THEN NewDate(year, 11, 27) ELSE NewDate(year, 11, 25)
  IN  pick(getDay(NewDate(year, 11, 25)))

xmas(year) ==
  LET pick(xmasDay) ==
        IF xmasDay = 6 THEN NewDate(year, 11, 27)
        ELSE IF xmasDay = 0 THEN NewDate(year, 11, 27)
        ELSE NewDate(year, 11, 25)
  IN  pick(getDay(NewDate(year, 11, 25)))

\* a Sunday Boxing Day moved to the 27th, the substitute of Christmas
boxing_sunday27(year) ==
  LET pick(boxingDay) ==
        IF boxingDay = 6 THEN NewDate(year, 11, 28)
        ELSE IF boxingDay = 0 THEN NewDate(year, 11, 27)
        ELSE NewDate(year, 11, 26)
  IN  pick(getDay(NewDate(year, 11, 26)))

boxing(year) ==
  LET pick(boxingDay) ==
        IF boxingDay = 6 THEN NewDate(year, 11, 28)
        ELSE IF boxingDay = 0 THEN NewDate(year, 11, 28)
        ELSE NewDate(year, 11, 26)
  IN  pick(getDay(NewDate(year, 11, 26)))

advent(year) ==
  LET date(daysToSunday) == NewDate(year, 11, 25 - daysToSunday - 21)
      from(xmasDayOfWeek) == date(IF xmasDayOfWeek = 0 THEN 0 ELSE 7 - xmasDayOfWeek)
  IN  from(getDay(NewDate(year, 11, 25)))

diwali(year) ==
  LET \* (15 + diwaliOffset) % 30 || 15
      orFifteen(day) == IF day = 0 THEN 15 ELSE day
      date(shifted) == NewDate(year, 9 + shifted \div 30, orFifteen(JsRem(shifted, 30)))
      from(diwaliOffset) == date(15 + diwaliOffset)
  IN  from(JsRem((year - 2024) * 11, 30))

eidFitr(year) ==
  LET inYear(e) ==
        IF getFullYear(e) # year THEN NewDate(year, getMonth(e), getDate(e)) ELSE e
      shifted(eidFitrBase, eidShift) == inYear(addDate(eidFitrBase, 0 - eidShift))
      from(yearDiff) == shifted(NewDate(2024, 3, 10), JsRem(yearDiff * 11, 354))
  IN  from(year - 2024)

Holiday(date, name, type) == [date |-> date, name |-> name, type |-> type]

getUKBankHolidays(year) ==
  LET holidays(easter) ==
        << Holiday(nyd(year), "New Year's Day", "bank"),
           Holiday(addDays(easter, 0 - 2), "Good Friday", "bank"),
           Holiday(addDays(easter, 1), "Easter Monday", "bank"),
           Holiday(getNthWeekday(year, 4, 1, 1), "Early May Bank Holiday", "bank"),
           Holiday(getNthWeekday(year, 4, 1, 0 - 1), "Spring Bank Holiday", "bank"),
           Holiday(getNthWeekday(year, 7, 1, 0 - 1), "Summer Bank Holiday", "bank"),
           Holiday(xmas(year), "Christmas Day", "bank"),
           Holiday(boxing(year), "Boxing Day", "bank"),
           Holiday(NewDate(year, 0, 6), "Epiphany", "religious"),
           Holiday(addDays(easter, 0 - 47), "Shrove Tuesday", "religious"),
           Holiday(addDays(easter, 0 - 46), "Ash Wednesday", "religious"),
           Holiday(addDays(easter, 0 - 21), "Mother's Day (UK)", "cultural"),
           Holiday(addDays(easter, 0 - 7), "Palm Sunday", "religious"),
           Holiday(addDays(easter, 0 - 3), "Maundy Thursday", "religious"),
           Holiday(easter, "Easter Sunday", "religious"),
           Holiday(addDays(easter, 39), "Ascension Day", "religious"),
           Holiday(addDays(easter, 49), "Pentecost", "religious"),
           Holiday(advent(year), "Advent Sunday", "religious"),
           Holiday(NewDate(year, 11, 24), "Christmas Eve", "religious"),
           Holiday(diwali(year), "Diwali (approx)", "religious"),
           Holiday(NewDate(year, 11, 10), "Hanukkah (approx)", "religious"),
           Holiday(eidFitr(year), "Eid al-Fitr (approx)", "religious"),
           Holiday(addDays(eidFitr(year), 70), "Eid al-Adha (approx)", "religious"),
           Holiday(NewDate(year, 0, 25), "Burns Night", "cultural"),
           Holiday(NewDate(year, 1, 14), "Valentine's Day", "cultural"),
           Holiday(NewDate(year, 2, 1), "St David's Day", "cultural"),
           Holiday(NewDate(year, 2, 17), "St Patrick's Day", "cultural"),
           Holiday(NewDate(year, 3, 23), "St George's Day", "cultural"),
           Holiday(getNthWeekday(year, 5, 0, 3), "Father's Day", "cultural"),
           Holiday(NewDate(year, 9, 31), "Halloween", "cultural"),
           Holiday(NewDate(year, 10, 5), "Bonfire Night", "cultural"),
           Holiday(getNthWeekday(year, 10, 0, 2), "Remembrance Sunday", "cultural"),
           Holiday(NewDate(year, 10, 11), "Armistice Day", "cultural"),
           Holiday(NewDate(year, 10, 30), "St Andrew's Day", "cultural"),
           Holiday(NewDate(year, 11, 31), "New Year's Eve", "cultural") >>
  IN  holidays(getEasterSunday(year))


(***************************************************************************)
(* getDayLength.  Its trigonometry runs on IEEE doubles and depends on the  *)
(* date through dayOfYear only, so each floating-point quantity is kept as *)
(* the table of its values for dayOfYear 0..367, in millionths, rounded    *)
(* down.  Everything the code derives from them (rounding, clamping, the   *)
(* clock format, the trend) is computed on the millionths.                 *)
(***************************************************************************)
\* cosHourAngle = -Math.tan(latRad) * Math.tan(declination), by dayOfYear
cosHourAngleMicro ==
  << 535750, 533826, 531728, 529456, 527013, 524400, 521618, 518669, 515555,
     512277, 508837, 505237, 501479, 497566, 493498, 489280, 484912, 480396,
     475737, 470935, 465993, 460914, 455700, 450353, 444877, 439273, 433545,
     427695, 421726, 415640, 409439, 403128, 396707, 390181, 383551, 376820,
     369992, 363067, 356050, 348943, 341748, 334467, 327105, 319662, 312142,
     304546, 296879, 289141, 281335, 273464, 265530, 257536, 249483, 241374,
     233212, 224998, 216734, 208424, 200068, 191669, 183229, 174751, 166236,
     157686, 149103, 140489, 131847, 123177, 114482, 105764, 97025, 88266,
     79490, 70697, 61891, 53072, 44243, 35404, 26559, 17709, 8855, 0, 0 - 8856,
     0 - 17710, 0 - 26560, 0 - 35405, 0 - 44244, 0 - 53073, 0 - 61892, 0 -
     70698, 0 - 79491, 0 - 88267, 0 - 97026, 0 - 105765, 0 - 114483, 0 -
     123178, 0 - 131848, 0 - 140490, 0 - 149104, 0 - 157687, 0 - 166237, 0 -
     174752, 0 - 183230, 0 - 191670, 0 - 200069, 0 - 208425, 0 - 216735, 0 -
     224999, 0 - 233213, 0 - 241375, 0 - 249484, 0 - 257537, 0 - 265531, 0 -
     273465, 0 - 281336, 0 - 289142, 0 - 296880, 0 - 304547, 0 - 312143, 0 -
     319663, 0 - 327106, 0 - 334468, 0 - 341749, 0 - 348944, 0 - 356051, 0 -
     363068, 0 - 369993, 0 - 376821, 0 - 383552, 0 - 390182, 0 - 396708, 0 -
     403129, 0 - 409440, 0 - 415641, 0 - 421727, 0 - 427696, 0 - 433546, 0 -
     439274, 0 - 444878, 0 - 450354, 0 - 455701, 0 - 460915, 0 - 465994, 0 -
     470936, 0 - 475738, 0 - 480397, 0 - 484913, 0 - 489281, 0 - 493499, 0 -
     497567, 0 - 501480, 0 - 505238, 0 - 508838, 0 - 512278, 0 - 515556, 0 -
     518670, 0 - 521619, 0 - 524401, 0 - 527014, 0 - 529457, 0 - 531729, 0 -
     533827, 0 - 535751, 0 - 537500, 0 - 539072, 0 - 540467, 0 - 541684, 0 -
     542722, 0 - 543580, 0 - 544258, 0 - 544756, 0 - 545073, 0 - 545209, 0 -
     545163, 0 - 544937, 0 - 544530, 0 - 543942, 0 - 543174, 0 - 542226, 0 -
     541098, 0 - 539792, 0 - 538308, 0 - 536648, 0 - 534811, 0 - 532800, 0 -
     530615, 0 - 528257, 0 - 525729, 0 - 523031, 0 - 520165, 0 - 517133, 0 -
     513937, 0 - 510578, 0 - 507058, 0 - 503379, 0 - 499543, 0 - 495552, 0 -
     491409, 0 - 487115, 0 - 482673, 0 - 478086, 0 - 473354, 0 - 468482, 0 -
     463471, 0 - 458324, 0 - 453044, 0 - 447632, 0 - 442092, 0 - 436426, 0 -
     430636, 0 - 424726, 0 - 418698, 0 - 412555, 0 - 406298, 0 - 399932, 0 -
     393458, 0 - 386880, 0 - 380199, 0 - 373419, 0 - 366542, 0 - 359571, 0 -
     352509, 0 - 345357, 0 - 338119, 0 - 330797, 0 - 323394, 0 - 315912, 0 -
     308354, 0 - 300722, 0 - 293019, 0 - 285247, 0 - 277409, 0 - 269506, 0 -
     261542, 0 - 253518, 0 - 245437, 0 - 237301, 0 - 229112, 0 - 220873, 0 -
     212586, 0 - 204252, 0 - 195875, 0 - 187455, 0 - 178996, 0 - 170499, 0 -
     161966, 0 - 153399, 0 - 144801, 0 - 136172, 0 - 127516, 0 - 118834, 0 -
     110127, 0 - 101398, 0 - 92649, 0 - 83881, 0 - 75096, 0 - 66297, 0 - 57484,
     0 - 48659, 0 - 39825, 0 - 30984, 0 - 22136, 0 - 13283, 0 - 4428, 4427,
     13282, 22135, 30983, 39824, 48658, 57483, 66296, 75095, 83880, 92648,
     101397, 110126, 118833, 127515, 136171, 144800, 153398, 161965, 170498,
     178995, 187454, 195874, 204251, 212585, 220872, 229111, 237300, 245436,
     253517, 261541, 269505, 277408, 285246, 293018, 300721, 308353, 315911,
     323393, 330796, 338118, 345356, 352508, 359570, 366541, 373418, 380198,
     386879, 393457, 399931, 406297, 412554, 418697, 424725, 430635, 436425,
     442091, 447631, 453043, 458323, 463470, 468481, 473353, 478085, 482672,
     487114, 491408, 495551, 499542, 503378, 507057, 510577, 513936, 517132,
     520164, 523030, 525728, 528256, 530614, 532799, 534810, 536647, 538307,
     539791, 541097, 542225, 543173, 543941, 544529, 544936, 545162, 545208,
     545072, 544755, 544257, 543579, 542721, 541683, 540466, 539071, 537499,
     535750, 533826, 531728 >>

\* (2 * toDeg(Math.acos(cosHourAngle))) / 15, hours of daylight, by dayOfYear
hourAngleDayLengthMicro ==
  << 7680687, 7698083, 7717025, 7737497, 7759477, 7782946, 7807880, 7834259,
     7862057, 7891250, 7921813, 7953719, 7986941, 8021452, 8057225, 8094230,
     8132438, 8171822, 8212351, 8253996, 8296728, 8340518, 8385334, 8431150,
     8477934, 8525658, 8574294, 8623812, 8674184, 8725382, 8777380, 8830149,
     8883662, 8937895, 8992820, 9048414, 9104649, 9161504, 9218953, 9276974,
     9335544, 9394642, 9454244, 9514331, 9574883, 9635878, 9697299, 9759126,
     9821341, 9883927, 9946866, 10010141, 10073738, 10137639, 10201830,
     10266296, 10331024, 10395998, 10461206, 10526636, 10592273, 10658107,
     10724126, 10790317, 10856671, 10923176, 10989821, 11056597, 11123494,
     11190502, 11257612, 11324813, 11392098, 11459458, 11526883, 11594366,
     11661897, 11729469, 11797074, 11864702, 11932347, 12000000, 12067652,
     12135297, 12202925, 12270530, 12338102, 12405633, 12473116, 12540541,
     12607901, 12675186, 12742387, 12809497, 12876505, 12943402, 13010178,
     13076823, 13143328, 13209682, 13275873, 13341892, 13407726, 13473363,
     13538793, 13604001, 13668975, 13733703, 13798169, 13862360, 13926261,
     13989858, 14053133, 14116072, 14178658, 14240873, 14302700, 14364121,
     14425116, 14485668, 14545755, 14605357, 14664455, 14723025, 14781046,
     14838495, 14895350, 14951585, 15007179, 15062104, 15116337, 15169850,
     15222619, 15274617, 15325815, 15376187, 15425705, 15474341, 15522065,
     15568849, 15614665, 15659481, 15703271, 15746003, 15787648, 15828177,
     15867561, 15905769, 15942774, 15978547, 16013058, 16046280, 16078186,
     16108749, 16137942, 16165740, 16192119, 16217053, 16240522, 16262502,
     16282974, 16301916, 16319312, 16335145, 16349398, 16362057, 16373110,
     16382546, 16390355, 16396529, 16401061, 16403948, 16405186, 16404773,
     16402711, 16399001, 16393647, 16386654, 16378031, 16367785, 16355928,
     16342470, 16327425, 16310809, 16292637, 16272928, 16251699, 16228972,
     16204768, 16179108, 16152017, 16123518, 16093637, 16062399, 16029832,
     15995962, 15960816, 15924424, 15886814, 15848014, 15808054, 15766963,
     15724771, 15681506, 15637200, 15591880, 15545576, 15498319, 15450135,
     15401055, 15351106, 15300318, 15248716, 15196330, 15143185, 15089308,
     15034726, 14979464, 14923546, 14866998, 14809843, 14752105, 14693807,
     14634971, 14575618, 14515771, 14455449, 14394673, 14333462, 14271836,
     14209813, 14147410, 14084646, 14021536, 13958098, 13894348, 13830300,
     13765969, 13701371, 13636518, 13571425, 13506105, 13440570, 13374833,
     13308905, 13242798, 13176525, 13110094, 13043517, 12976805, 12909968,
     12843014, 12775954, 12708798, 12641553, 12574230, 12506836, 12439381,
     12371873, 12304320, 12236731, 12169113, 12101476, 12033826, 11966173,
     11898523, 11830886, 11763268, 11695679, 11628126, 11560618, 11493163,
     11425769, 11358446, 11291201, 11224045, 11156985, 11090031, 11023194,
     10956482, 10889905, 10823474, 10757201, 10691094, 10625166, 10559429,
     10493894, 10428574, 10363481, 10298628, 10234030, 10169699, 10105651,
     10041901, 9978463, 9915353, 9852589, 9790186, 9728163, 9666537, 9605326,
     9544550, 9484228, 9424381, 9365028, 9306192, 9247894, 9190156, 9133001,
     9076453, 9020535, 8965273, 8910691, 8856814, 8803669, 8751283, 8699681,
     8648893, 8598944, 8549864, 8501680, 8454423, 8408119, 8362799, 8318493,
     8275228, 8233036, 8191945, 8151985, 8113185, 8075575, 8039183, 8004037,
     7970167, 7937600, 7906362, 7876481, 7847982, 7820891, 7795231, 7771027,
     7748300, 7727071, 7707362, 7689190, 7672574, 7657529, 7644071, 7632214,
     7621968, 7613345, 7606352, 7600998, 7597288, 7595226, 7594813, 7596051,
     7598938, 7603470, 7609644, 7617453, 7626889, 7637942, 7650601, 7664854,
     7680687, 7698083, 7717025 >>

\* equationOfTime = 9.87 sin(2B) - 7.53 cos(B) - 1.5 sin(B), minutes, by dayOfYear
equationOfTimeMicro ==
  << 0 - 3256235, 0 - 3705179, 0 - 4149711, 0 - 4589421, 0 - 5023907, 0 -
     5452771, 0 - 5875622, 0 - 6292075, 0 - 6701754, 0 - 7104291, 0 - 7499324,
     0 - 7886503, 0 - 8265483, 0 - 8635932, 0 - 8997525, 0 - 9349950, 0 -
     9692902, 0 - 10026089, 0 - 10349230, 0 - 10662054, 0 - 10964304, 0 -
     11255732, 0 - 11536104, 0 - 11805198, 0 - 12062805, 0 - 12308729, 0 -
     12542786, 0 - 12764806, 0 - 12974633, 0 - 13172122, 0 - 13357146, 0 -
     13529589, 0 - 13689349, 0 - 13836338, 0 - 13970483, 0 - 14091725, 0 -
     14200019, 0 - 14295334, 0 - 14377653, 0 - 14446975, 0 - 14503310, 0 -
     14546686, 0 - 14577142, 0 - 14594733, 0 - 14599526, 0 - 14591604, 0 -
     14571062, 0 - 14538009, 0 - 14492569, 0 - 14434877, 0 - 14365082, 0 -
     14283346, 0 - 14189843, 0 - 14084760, 0 - 13968297, 0 - 13840665, 0 -
     13702085, 0 - 13552793, 0 - 13393032, 0 - 13223059, 0 - 13043141, 0 -
     12853552, 0 - 12654580, 0 - 12446521, 0 - 12229677, 0 - 12004363, 0 -
     11770899, 0 - 11529616, 0 - 11280849, 0 - 11024943, 0 - 10762247, 0 -
     10493119, 0 - 10217920, 0 - 9937019, 0 - 9650787, 0 - 9359601, 0 -
     9063842, 0 - 8763895, 0 - 8460146, 0 - 8152986, 0 - 7842806, 0 - 7530000,
     0 - 7214964, 0 - 6898091, 0 - 6579777, 0 - 6260419, 0 - 5940410, 0 -
     5620143, 0 - 5300010, 0 - 4980401, 0 - 4661702, 0 - 4344297, 0 - 4028565,
     0 - 3714884, 0 - 3403624, 0 - 3095152, 0 - 2789830, 0 - 2488013, 0 -
     2190051, 0 - 1896287, 0 - 1607056, 0 - 1322687, 0 - 1043502, 0 - 769811, 0
     - 501921, 0 - 240125, 15291, 264048, 505882, 740536, 967763, 1187328,
     1399008, 1602588, 1797868, 1984658, 2162780, 2332068, 2492370, 2643543,
     2785461, 2918007, 3041079, 3154588, 3258457, 3352623, 3437037, 3511660,
     3576471, 3631458, 3676625, 3711989, 3737579, 3753438, 3759622, 3756200,
     3743254, 3720879, 3689182, 3648282, 3598313, 3539417, 3471753, 3395487,
     3310799, 3217881, 3116933, 3008170, 2891813, 2768096, 2637263, 2499566,
     2355268, 2204638, 2047957, 1885513, 1717600, 1544522, 1366590, 1184118,
     997431, 806857, 612730, 415390, 215179, 12446, 0 - 192457, 0 - 399177, 0 -
     607356, 0 - 816634, 0 - 1026650, 0 - 1237040, 0 - 1447441, 0 - 1657489, 0
     - 1866819, 0 - 2075068, 0 - 2281872, 0 - 2486871, 0 - 2689704, 0 -
     2890015, 0 - 3087449, 0 - 3281655, 0 - 3472286, 0 - 3658997, 0 - 3841451,
     0 - 4019314, 0 - 4192257, 0 - 4359958, 0 - 4522100, 0 - 4678376, 0 -
     4828481, 0 - 4972122, 0 - 5109011, 0 - 5238870, 0 - 5361429, 0 - 5476427,
     0 - 5583612, 0 - 5682741, 0 - 5773583, 0 - 5855917, 0 - 5929530, 0 -
     5994222, 0 - 6049804, 0 - 6096098, 0 - 6132939, 0 - 6160170, 0 - 6177652,
     0 - 6185252, 0 - 6182854, 0 - 6170353, 0 - 6147657, 0 - 6114686, 0 -
     6071375, 0 - 6017670, 0 - 5953533, 0 - 5878935, 0 - 5793866, 0 - 5698325,
     0 - 5592326, 0 - 5475896, 0 - 5349078, 0 - 5211924, 0 - 5064504, 0 -
     4906898, 0 - 4739201, 0 - 4561521, 0 - 4373979, 0 - 4176708, 0 - 3969856,
     0 - 3753582, 0 - 3528058, 0 - 3293469, 0 - 3050011, 0 - 2797894, 0 -
     2537337, 0 - 2268572, 0 - 1991843, 0 - 1707405, 0 - 1415521, 0 - 1116467,
     0 - 810529, 0 - 498003, 0 - 179192, 145589, 476017, 811762, 1152484,
     1497836, 1847464, 2201007, 2558098, 2918364, 3281425, 3646897, 4014392,
     4383515, 4753870, 5125057, 5496673, 5868311, 6239563, 6610022, 6979276,
     7346914, 7712527, 8075703, 8436033, 8793110, 9146526, 9495878, 9840765,
     10180789, 10515556, 10844676, 11167764, 11484439, 11794329, 12097063,
     12392280, 12679625, 12958750, 13229315, 13490988, 13743446, 13986373,
     14219466, 14442429, 14654975, 14856830, 15047729, 15227419, 15395658,
     15552214, 15696871, 15829420, 15949668, 16057434, 16152550, 16234859,
     16304219, 16360503, 16403595, 16433394, 16449813, 16452779, 16442232,
     16418129, 16380437, 16329143, 16264242, 16185750, 16093691, 15988109,
     15869059, 15736612, 15590851, 15431877, 15259800, 15074750, 14876865,
     14666301, 14443226, 14207820, 13960279, 13700811, 13429635, 13146984,
     12853104, 12548251, 12232695, 11906716, 11570605, 11224666, 10869210,
     10504560, 10131050, 9749022, 9358826, 8960824, 8555383, 8142879, 7723696,
     7298225, 6866862, 6430011, 5988082, 5541489, 5090650, 4635989, 4177935,
     3716916, 3253368, 2787727, 2320430, 1851917, 1382629, 913007, 443491, 0 -
     25477, 0 - 493457, 0 - 960013, 0 - 1424707, 0 - 1887105, 0 - 2346777, 0 -
     2803295, 0 - 3256235, 0 - 3705179, 0 - 4149711 >>

\* Math.floor and Math.round (half up) of a value of v millionths
FloorMicro(v) == v \div 1000000
RoundMicro(v) == (v + 500000) \div 1000000

Max(a, b) == IF a >= b THEN a ELSE b
Abs(a) == IF a >= 0 THEN a ELSE 0 - a

\* sunrise = sunset = null
Null == [null |-> TRUE]

\* formatTime(minutes): the fields of `${hrs}:${mins}`, each padded to two
\* digits by the code; minutes in millionths of a minute
formatTime(minutes) ==
  [hrs  |-> minutes \div 60000000,
   mins |-> RoundMicro(JsRem(minutes, 60000000))]

\* Math.floor((d - new Date(d.getFullYear(), 0, 0)) / (1000 * 60 * 60 * 24));
\* d is the date as passed, with its time of day
dayOfYear(d) == FloorDays(d - NewDate(getFullYear(d), 0, 0))

\* the day before taken for the day after
tomorrowDayOfYear_yesterday(n) == n - 1

tomorrowDayOfYear(n) == n + 1

\* const tomorrowDayLength: the hour angle of tomorrow's dayOfYear, its cosine
\* clamped to [-1, 1]
tomorrowDayLength(n) == hourAngleDayLengthMicro[tomorrowDayOfYear(n) + 1]

\* without Math.max(0, Math.min(100, ...))
dayLengthPercent_unclamped(dayLengthHours) ==
  ((dayLengthHours - 7500000) * 100 + 4500000) \div 9000000

\* Math.max(0, Math.min(100, Math.round((dayLengthHours - 7.5) / (16.5 - 7.5) * 100)))
dayLengthPercent(dayLengthHours) ==
  Max(0, Min(100, ((dayLengthHours - 7500000) * 100 + 4500000) \div 9000000))

\* "Handle polar day/night edge cases": dayLengthHours, sunrise and sunset
\* from the cosine of the hour angle (in millionths) on day n of the year
hourAngleBranch(n, cosHourAngle) ==
  LET clock(dayLengthHours, solarNoon, halfDayMinutes) ==
        [dayLengthHours |-> dayLengthHours,
         sunrise        |-> formatTime(solarNoon - halfDayMinutes),
         sunset         |-> formatTime(solarNoon + halfDayMinutes)]
      \* timeCorrection = 4 * longitude + equationOfTime, 4 * -0.1278 minutes
      \* being -511200 millionths; solarNoon = 12 * 60 - timeCorrection;
      \* halfDayMinutes = (dayLengthHours / 2) * 60
      daylight(dayLengthHours) ==
        clock(dayLengthHours,
              720000000 - ((0 - 511200) + equationOfTimeMicro[n + 1]),
              dayLengthHours * 30)
  IN  IF cosHourAngle < 0 - 1000000
      THEN [dayLengthHours |-> 24000000, sunrise |-> Null, sunset |-> Null]
      ELSE IF cosHourAngle > 1000000
           THEN [dayLengthHours |-> 0, sunrise |-> Null, sunset |-> Null]
           ELSE daylight(hourAngleDayLengthMicro[n + 1])

getDayLength(date) ==
  LET record(dayLengthHours, sunrise, sunset, daysGettingLonger, changeMinutes) ==
        [\* Math.round(dayLengthHours * 100) / 100, in hundredths of an hour
         dayLengthHours     |-> (dayLengthHours + 5000) \div 10000,
         \* `${hours}h ${minutes}m`
         dayLengthFormatted |->
           [hours   |-> FloorMicro(dayLengthHours),
            minutes |-> RoundMicro((dayLengthHours - FloorMicro(dayLengthHours) * 1000000) * 60)],
         dayLengthPercent   |-> dayLengthPercent(dayLengthHours),
         sunrise            |-> sunrise,
         sunset             |-> sunset,
         daysGettingLonger  |-> daysGettingLonger,
         changeMinutes      |-> changeMinutes,
         \* `${daysGettingLonger ? '+' : '-'}${changeMinutes}m`
         changeFormatted    |->
           [sign |-> IF daysGettingLonger THEN "+" ELSE "-", minutes |-> changeMinutes]]
      trend(dayLengthHours, sunrise, sunset, dayLengthChange) ==
        record(dayLengthHours, sunrise, sunset,
               dayLengthChange > 0, Abs(RoundMicro(dayLengthChange * 60)))
      withTomorrow(n, dayLengthHours, sunrise, sunset) ==
        trend(dayLengthHours, sunrise, sunset, tomorrowDayLength(n) - dayLengthHours)
      finish(n, reached) ==
        withTomorrow(n, reached.dayLengthHours, reached.sunrise, reached.sunset)
      from(n) == finish(n, hourAngleBranch(n, cosHourAngleMicro[n + 1]))
  IN  from(dayOfYear(date))


(***************************************************************************)
(* getMoonPhase.  synodicMonth = 29.53058867 days is 42524.0476848         *)
(* minutes; a span inside the lunar cycle is kept exactly, as whole        *)
(* minutes plus a fraction in ten-millionths of a minute.  lunarDay is     *)
(* returned in millionths of a day, rounded down.                          *)
(***************************************************************************)
\* knownNewMoon = new Date(2000, 0, 6, 18, 14, 0), in minutes since the epoch
knownNewMoonMinutes == (NewDate(2000, 0, 6) + 18) * 60 + 14

\* Math.round((1 - Math.cos(lunarDay / synodicMonth * 2 * Math.PI)) / 2 * 100):
\* entry k is the lunarDay (millionths of a day) from which the value is at
\* least k while the moon waxes
illuminationRises ==
  << 665227, 1154143, 1492515, 1768980, 2009282, 2225192, 2423261, 2607579,
     2780901, 2945190, 3101901, 3252148, 3396807, 3536584, 3672054, 3803695,
     3931911, 4057044, 4179389, 4299203, 4416710, 4532107, 4645571, 4757259,
     4867312, 4975857, 5083011, 5188879, 5293559, 5397139, 5499704, 5601328,
     5702085, 5802041, 5901260, 5999799, 6097717, 6195066, 6291897, 6388258,
     6484197, 6579759, 6674986, 6769921, 6864606, 6959080, 7053383, 7147553,
     7241628, 7335647, 7429648, 7523667, 7617743, 7711913, 7806215, 7900689,
     7995374, 8090309, 8185537, 8281098, 8377037, 8473399, 8570229, 8667578,
     8765496, 8864036, 8963254, 9063210, 9163967, 9265592, 9368156, 9471737,
     9576416, 9682285, 9789438, 9897984, 10008036, 10119724, 10233188,
     10348586, 10466093, 10585906, 10708251, 10833384, 10961600, 11093241,
     11228711, 11368488, 11513148, 11663395, 11820105, 11984394, 12157717,
     12342034, 12540103, 12756013, 12996315, 13272780, 13611152, 14100068 >>

\* entry k is the lunarDay from which the value is below k again while the
\* moon wanes
illuminationFalls ==
  << 28865362, 28376446, 28038074, 27761610, 27521308, 27305398, 27107329,
     26923011, 26749689, 26585400, 26428689, 26278442, 26133782, 25994005,
     25858536, 25726894, 25598679, 25473546, 25351201, 25231387, 25113880,
     24998483, 24885018, 24773331, 24663278, 24554733, 24447579, 24341711,
     24237031, 24133450, 24030886, 23929261, 23828504, 23728548, 23629330,
     23530790, 23432873, 23335524, 23238693, 23142331, 23046392, 22950831,
     22855604, 22760668, 22665984, 22571510, 22477207, 22383037, 22288961,
     22194942, 22100942, 22006923, 21912847, 21818677, 21724374, 21629900,
     21535216, 21440280, 21345053, 21249492, 21153553, 21057191, 20960360,
     20863011, 20765094, 20666554, 20567336, 20467380, 20366623, 20264998,
     20162434, 20058853, 19954173, 19848305, 19741151, 19632606, 19522553,
     19410866, 19297401, 19182004, 19064497, 18944683, 18822338, 18697205,
     18568990, 18437348, 18301879, 18162102, 18017442, 17867195, 17710485,
     17546195, 17372873, 17188555, 16990486, 16774576, 16534274, 16257810,
     15919438, 15430522 >>

PhaseNames ==
  << "New Moon", "Waxing Crescent", "First Quarter", "Waxing Gibbous",
     "Full Moon", "Waning Gibbous", "Last Quarter", "Waning Crescent" >>

\* with bands that start at whole multiples of phaseLength
getMoonPhase_unshifted(date) ==
  LET record(phase, lunarDay) ==
        [phase         |-> phase,
         name          |-> PhaseNames[phase + 1],
         lunarDay      |-> lunarDay,
         illumination  |->
           Cardinality({ k \in 1..100 : /\ illuminationRises[k] <= lunarDay
                                        /\ lunarDay < illuminationFalls[k] }),
         isSignificant |-> (phase = 0 \/ phase = 2 \/ phase = 4 \/ phase = 6)]
      \* lunarDay < phaseLength * (j + 1), phaseLength = synodicMonth / 8
      \* being 2657.7529803 minutes
      before(whole, frac, j) ==
        \/ whole < (2 * j + 2) * 2657 + ((2 * j + 2) * 7529803) \div 10000000
        \/ /\ whole = (2 * j + 2) * 2657 + ((2 * j + 2) * 7529803) \div 10000000
           /\ frac < ((2 * j + 2) * 7529803) % 10000000
      phaseOf(whole, frac) ==
        IF before(whole, frac, 0) THEN 0
        ELSE IF before(whole, frac, 1) THEN 1
        ELSE IF before(whole, frac, 2) THEN 2
        ELSE IF before(whole, frac, 3) THEN 3
        ELSE IF before(whole, frac, 4) THEN 4
        ELSE IF before(whole, frac, 5) THEN 5
        ELSE IF before(whole, frac, 6) THEN 6
        ELSE IF before(whole, frac, 7) THEN 7
        ELSE 0
      \* lunarDay as whole minutes and a fraction, then in millionths of a
      \* day (1 minute = 6250 / 9 millionths)
      inCycle(whole, frac) ==
        record(phaseOf(whole, frac), (whole * 6250 + frac \div 1600) \div 9)
      \* daysSinceNewMoon % synodicMonth, plus synodicMonth when negative:
      \* the span less `cycles` whole months
      remainder(span, cycles, borrow) ==
        inCycle(span - 42524 * cycles - borrow, borrow * 10000000 - 476848 * cycles)
      reduce(span, cycles) == remainder(span, cycles, CeilDiv(476848 * cycles, 10000000))
      cyclesOf(span, q) ==
        reduce(span, IF span - 42524 * q >= CeilDiv(476848 * q, 10000000) THEN q ELSE q - 1)
      fromSpan(daysSinceNewMoon) == cyclesOf(daysSinceNewMoon, daysSinceNewMoon \div 42524)
  IN  fromSpan(setHoursZero(date) * 60 - knownNewMoonMinutes)

getMoonPhase(date) ==
  LET record(phase, lunarDay) ==
        [phase         |-> phase,
         name          |-> PhaseNames[phase + 1],
         lunarDay      |-> lunarDay,
         illumination  |->
           Cardinality({ k \in 1..100 : /\ illuminationRises[k] <= lunarDay
                                        /\ lunarDay < illuminationFalls[k] }),
         isSignificant |-> (phase = 0 \/ phase = 2 \/ phase = 4 \/ phase = 6)]
      \* lunarDay < phaseLength * (j + 0.5), phaseLength = synodicMonth / 8
      \* being 2657.7529803 minutes
      before(whole, frac, j) ==
        \/ whole < (2 * j + 1) * 2657 + ((2 * j + 1) * 7529803) \div 10000000
        \/ /\ whole = (2 * j + 1) * 2657 + ((2 * j + 1) * 7529803) \div 10000000
           /\ frac < ((2 * j + 1) * 7529803) % 10000000
      phaseOf(whole, frac) ==
        IF before(whole, frac, 0) THEN 0
        ELSE IF before(whole, frac, 1) THEN 1
        ELSE IF before(whole, frac, 2) THEN 2
        ELSE IF before(whole, frac, 3) THEN 3
        ELSE IF before(whole, frac, 4) THEN 4
        ELSE IF before(whole, frac, 5) THEN 5
        ELSE IF before(whole, frac, 6) THEN 6
        ELSE IF before(whole, frac, 7) THEN 7
        ELSE 0
      \* lunarDay as whole minutes and a fraction, then in millionths of a
      \* day (1 minute = 6250 / 9 millionths)
      inCycle(whole, frac) ==
        record(phaseOf(whole, frac), (whole * 6250 + frac \div 1600) \div 9)
      \* daysSinceNewMoon % synodicMonth, plus synodicMonth when negative:
      \* the span less `cycles` whole months
      remainder(span, cycles, borrow) ==
        inCycle(span - 42524 * cycles - borrow, borrow * 10000000 - 476848 * cycles)
      reduce(span, cycles) == remainder(span, cycles, CeilDiv(476848 * cycles, 10000000))
      cyclesOf(span, q) ==
        reduce(span, IF span - 42524 * q >= CeilDiv(476848 * q, 10000000) THEN q ELSE q - 1)
      fromSpan(daysSinceNewMoon) == cyclesOf(daysSinceNewMoon, daysSinceNewMoon \div 42524)
  IN  fromSpan(setHoursZero(date) * 60 - knownNewMoonMinutes)

(***************************************************************************)
(* Inputs                                                                  *)
(***************************************************************************)
FirstDay == DaysFromCivil(MinYear, 1, 1)
LastDay  == DaysFromCivil(MaxYear, 12, 31)

\* the Dates a caller passes: any local day of the range, at midnight or noon
Dates == { FromLocal(day, hr) : day \in FirstDay..LastDay, hr \in Hours }

\* the Dates passed to getMoonPhase: those, and the days around the reference
\* new moon of 6 January 2000, before it and after it
MoonDates ==
  Dates \cup { FromLocal(day, hr) : day \in (DaysFromCivil(2000, 1, 6) - 45)..(DaysFromCivil(2000, 1, 6) + 45),
                                    hr \in Hours }

\* weeks and periods a caller passes (the views iterate 1..totalWeeks and
\* 1..ceil(totalWeeks / 4); railwayToDateRange takes any number, so also the
\* weeks 0 and 54, which no year has)
Weeks   == 0..54
Periods == 1..14

NoArg == [none |-> TRUE]

(***************************************************************************)
(* The state machine: the caller (the view layer) is idle, calls one       *)
(* engine operation with an argument, and takes the returned record.       *)
(***************************************************************************)
Init ==
  /\ tz \in TimeZones
  /\ op = "idle"
  /\ arg = NoArg
  /\ ret = NoArg

Call_getWeekOneStart ==
  /\ op = "idle"
  /\ \E y \in Years :
       /\ arg' = [railwayYear |-> y]
       /\ ret' = [date |-> getWeekOneStart(y)]
  /\ op' = "getWeekOneStart"
  /\ UNCHANGED tz

Call_getTotalWeeks ==
  /\ op = "idle"
  /\ \E y \in Years :
       /\ arg' = [railwayYear |-> y]
       /\ ret' = [weeks |-> getTotalWeeks(y)]
  /\ op' = "getTotalWeeks"
  /\ UNCHANGED tz

Call_dateToRailway ==
  /\ op = "idle"
  /\ \E d \in Dates :
       /\ arg' = [date |-> d]
       /\ ret' = dateToRailway(d)
  /\ op' = "dateToRailway"
  /\ UNCHANGED tz

Call_railwayToDateRange ==
  /\ op = "idle"
  /\ \E y \in Years, w \in Weeks :
       /\ arg' = [railwayYear |-> y, railWeek |-> w]
       /\ ret' = railwayToDateRange(y, w)
  /\ op' = "railwayToDateRange"
  /\ UNCHANGED tz

Call_getPeriodDates ==
  /\ op = "idle"
  /\ \E y \in Years, p \in Periods :
       /\ arg' = [railwayYear |-> y, period |-> p]
       /\ ret' = getPeriodDates(y, p)
  /\ op' = "getPeriodDates"
  /\ UNCHANGED tz

Call_isPayday ==
  /\ op = "idle"
  /\ \E d \in Dates :
       /\ arg' = [date |-> d]
       /\ ret' = [payday |-> isPayday(d)]
  /\ op' = "isPayday"
  /\ UNCHANGED tz

Call_getNextPayday ==
  /\ op = "idle"
  /\ \E d \in Dates :
       /\ arg' = [date |-> d]
       /\ ret' = [date |-> getNextPayday(d)]
  /\ op' = "getNextPayday"
  /\ UNCHANGED tz


Call_getEasterSunday ==
  /\ op = "idle"
  /\ \E y \in HolidayYears :
       /\ arg' = [year |-> y]
       /\ ret' = [date |-> getEasterSunday(y)]
  /\ op' = "getEasterSunday"
  /\ UNCHANGED tz


Call_getUKBankHolidays ==
  /\ op = "idle"
  /\ \E y \in HolidayYears :
       /\ arg' = [year |-> y]
       /\ ret' = [holidays |-> getUKBankHolidays(y)]
  /\ op' = "getUKBankHolidays"
  /\ UNCHANGED tz


Call_getDayLength ==
  /\ op = "idle"
  /\ \E d \in Dates :
       /\ arg' = [date |-> d]
       /\ ret' = getDayLength(d)
  /\ op' = "getDayLength"
  /\ UNCHANGED tz


Call_getMoonPhase ==
  /\ op = "idle"
  /\ \E d \in MoonDates :
       /\ arg' = [date |-> d]
       /\ ret' = getMoonPhase(d)
  /\ op' = "getMoonPhase"
  /\ UNCHANGED tz

\* the caller has consumed the result
Return ==
  /\ op # "idle"
  /\ op' = "idle"
  /\ arg' = NoArg
  /\ ret' = NoArg
  /\ UNCHANGED tz

Next ==
  \/ Call_getWeekOneStart
  \/ Call_getTotalWeeks
  \/ Call_dateToRailway
  \/ Call_railwayToDateRange
  \/ Call_getPeriodDates
  \/ Call_isPayday
  \/ Call_getNextPayday
  \/ Call_getEasterSunday
  \/ Call_getUKBankHolidays
  \/ Call_getDayLength
  \/ Call_getMoonPhase
  \/ Return

Spec == Init /\ [][Next]_vars

(***************************************************************************)
(* Date objects.  A Date is mutable (setHours, setDate), so a handler that *)
(* is given one works on objects: the caller's, `date`, the handler's own  *)
(* `d`, and the one it derives from d (`nextPayday`, `tomorrow`), here     *)
(* `copy`.  A store holds the time of each object and the object each      *)
(* variable is bound to.                                                   *)
(***************************************************************************)
ObjectNames == {"date", "d", "copy"}

\* the caller's object, holding `time`, on entry to a handler
callerStore(time) ==
  [time  |-> [o \in ObjectNames |-> time],
   bound |-> [v \in ObjectNames |-> v]]

\* const v = from: a second name for the same object
newDate_alias(store, v, from) ==
  [store EXCEPT !.bound[v] = store.bound[from]]

\* const v = new Date(from): a new object with the time of from
newDate(store, v, from) ==
  [store EXCEPT !.time[v] = store.time[store.bound[from]], !.bound[v] = v]

\* v.setHours(0, 0, 0, 0)
setHours(store, v) ==
  [store EXCEPT !.time[store.bound[v]] = setHoursZero(@)]

\* v.setDate(v.getDate() + n)
setDate(store, v, n) ==
  [store EXCEPT !.time[store.bound[v]] = addDate(@, n)]

\* const d = new Date(date); d.setHours(0, 0, 0, 0): the first two statements
\* of dateToRailway, isPayday, getNextPayday and getMoonPhase
normalizedCopy(date) == setHours(newDate(callerStore(date), "d", "date"), "d")

\* getNextPayday: const nextPayday = new Date(d);
\* nextPayday.setDate(nextPayday.getDate() + daysUntilPayday)
nextPaydayStore(date) ==
  setDate(newDate(normalizedCopy(date), "copy", "d"), "copy",
          LocalDay(getNextPayday(date)) - LocalDay(date))

\* getDayLength: const d = new Date(date); const tomorrow = new Date(d);
\* tomorrow.setDate(tomorrow.getDate() + 1)
tomorrowStore(date) ==
  setDate(newDate(newDate(callerStore(date), "d", "date"), "copy", "d"), "copy", 1)

(***************************************************************************)
(* The caller of the views: one Date object (arg.date) handed to engine    *)
(* operations one after the other, as WeekView does with each day of the   *)
(* week.  ret keeps the latest result of every operation called so far and *)
(* the number of calls made.                                               *)
(***************************************************************************)
FrameOps ==
  {"dateToRailway", "getMoonPhase", "getDayLength", "isPayday",
   "getNextPayday", "railwayToDateRange", "getUKBankHolidays"}

\* the Date objects the caller holds: a local day in every 61, at midnight and
\* at noon
FrameDates == { d \in Dates : LocalDay(d) % 61 = 0 }

FrameInit ==
  /\ tz \in TimeZones
  /\ op = "idle"
  /\ arg \in { [date |-> d] : d \in FrameDates }
  /\ ret = [calls |-> 0, results |-> [f \in FrameOps |-> NoArg]]

\* ret once operation f has returned `result`
returned(f, result) ==
  [calls |-> ret.calls + 1, results |-> [ret.results EXCEPT ![f] = result]]

\* the caller's object as a handler leaves it
dateAfter(store) == [date |-> store.time["date"]]

Frame_dateToRailway ==
  /\ op = "idle"
  /\ ret.calls < MaxCalls
  /\ op' = "dateToRailway"
  /\ ret' = returned("dateToRailway", dateToRailway(arg.date))
  /\ arg' = dateAfter(normalizedCopy(arg.date))
  /\ UNCHANGED tz

Frame_getMoonPhase ==
  /\ op = "idle"
  /\ ret.calls < MaxCalls
  /\ op' = "getMoonPhase"
  /\ ret' = returned("getMoonPhase", getMoonPhase(arg.date))
  /\ arg' = dateAfter(normalizedCopy(arg.date))
  /\ UNCHANGED tz

Frame_getDayLength ==
  /\ op = "idle"
  /\ ret.calls < MaxCalls
  /\ op' = "getDayLength"
  /\ ret' = returned("getDayLength", getDayLength(arg.date))
  /\ arg' = dateAfter(tomorrowStore(arg.date))
  /\ UNCHANGED tz

Frame_isPayday ==
  /\ op = "idle"
  /\ ret.calls < MaxCalls
  /\ op' = "isPayday"
  /\ ret' = returned("isPayday", [payday |-> isPayday(arg.date)])
  /\ arg' = dateAfter(normalizedCopy(arg.date))
  /\ UNCHANGED tz

Frame_getNextPayday ==
  /\ op = "idle"
  /\ ret.calls < MaxCalls
  /\ op' = "getNextPayday"
  /\ ret' = returned("getNextPayday", [date |-> getNextPayday(arg.date)])
  /\ arg' = dateAfter(nextPaydayStore(arg.date))
  /\ UNCHANGED tz

\* the week of the caller's date: the arguments are numbers, no object of the
\* caller is passed
Frame_railwayToDateRange ==
  /\ op = "idle"
  /\ ret.calls < MaxCalls
  /\ op' = "railwayToDateRange"
  /\ ret' = returned("railwayToDateRange",
                     railwayToDateRange(dateToRailway(arg.date).railwayYear,
                                        dateToRailway(arg.date).railWeek))
  /\ arg' = dateAfter(callerStore(arg.date))
  /\ UNCHANGED tz

\* const year = currentDate.getFullYear(); getUKBankHolidays(year)
Frame_getUKBankHolidays ==
  /\ op = "idle"
  /\ ret.calls < MaxCalls
  /\ op' = "getUKBankHolidays"
  /\ ret' = returned("getUKBankHolidays",
                     [holidays |-> getUKBankHolidays(getFullYear(arg.date))])
  /\ arg' = dateAfter(callerStore(arg.date))
  /\ UNCHANGED tz

Frame_Return ==
  /\ op # "idle"
  /\ op' = "idle"
  /\ UNCHANGED <<tz, arg, ret>>

FrameNext ==
  \/ Frame_dateToRailway
  \/ Frame_getMoonPhase
  \/ Frame_getDayLength
  \/ Frame_isPayday
  \/ Frame_getNextPayday
  \/ Frame_railwayToDateRange
  \/ Frame_getUKBankHolidays
  \/ Frame_Return

FrameSpec == FrameInit /\ [][FrameNext]_vars

(***************************************************************************)
(* Week navigation of the RailwayCalendar component.  In NavSpec arg is    *)
(* the component's state (currentDate, animating) as last rendered, and    *)
(* ret holds the timers that are pending: the callbacks passed to          *)
(* animateTransition, each with the currentDate its closure captured when  *)
(* navigateWeek was called, in the order of their timeouts, and the number *)
(* of pending () => setAnimating(false).  ret also keeps the date the      *)
(* component started with and the delta of every call made.  op is the     *)
(* handler or callback that ran last.                                      *)
(***************************************************************************)
MaxClicks == 3

\* currentDate = new Date() when the component is constructed
NavDates == { d \in Dates : LocalDay(d) % 61 = 0 }

\* the arrows call navigateWeek(-1) and navigateWeek(1)
Deltas == {0 - 1, 1}

NavInit ==
  /\ tz \in TimeZones
  /\ op = "idle"
  /\ arg \in { [currentDate |-> d, animating |-> FALSE] : d \in NavDates }
  /\ ret = [transitions |-> << >>, animationEnds |-> 0,
            initialDate |-> arg.currentDate, deltas |-> << >>]

\* the callback of navigateWeek: newDate = new Date(currentDate);
\* newDate.setDate(newDate.getDate() + delta * 7), with the currentDate of the
\* render whose navigateWeek was called
newDateOf(callback) == addDate(callback.currentDate, callback.delta * 7)

\* navigateWeek(delta): animateTransition sets animating and starts the
\* 150 ms timer of the callback
Nav_navigateWeek ==
  /\ Len(ret.deltas) < MaxClicks
  /\ \E delta \in Deltas :
       ret' = [ret EXCEPT
                 !.transitions = Append(@, [currentDate |-> arg.currentDate, delta |-> delta]),
                 !.deltas = Append(@, delta)]
  /\ arg' = [arg EXCEPT !.animating = TRUE]
  /\ op' = "navigateWeek"
  /\ UNCHANGED tz

\* the 150 ms timer fires: callback(), then setTimeout(() => setAnimating(false), 50)
Nav_transition ==
  /\ ret.transitions # << >>
  /\ arg' = [arg EXCEPT !.currentDate = newDateOf(Head(ret.transitions))]
  /\ ret' = [ret EXCEPT !.transitions = Tail(@), !.animationEnds = @ + 1]
  /\ op' = "transition"
  /\ UNCHANGED tz

\* the 50 ms timer fires: setAnimating(false)
Nav_animationEnd ==
  /\ ret.animationEnds > 0
  /\ arg' = [arg EXCEPT !.animating = FALSE]
  /\ ret' = [ret EXCEPT !.animationEnds = @ - 1]
  /\ op' = "animationEnd"
  /\ UNCHANGED tz

NavNext ==
  \/ Nav_navigateWeek
  \/ Nav_transition
  \/ Nav_animationEnd

NavSpec == NavInit /\ [][NavNext]_vars

(***************************************************************************)
(* Properties                                                              *)
(***************************************************************************)
\* the local calendar day of an instant, as year, month, day
Civil(t) == CivilFromDays(LocalDay(t))

\* the railway years whose boundaries can enclose a date of the range
NearYears == (MinYear - 2)..(MaxYear + 2)

\* d lies in railway year y: week-one start of y <= d < week-one start of y+1,
\* by calendar day
InRailwayYear(d, y) ==
  /\ LocalDay(getWeekOneStart(y)) <= LocalDay(d)
  /\ LocalDay(d) < LocalDay(getWeekOneStart(y + 1))

\* C1: dateToRailway(d).railwayYear is the unique year Y with
\* getWeekOneStart(Y) <= d < getWeekOneStart(Y+1), and the returned railWeek
\* lies in 1..getTotalWeeks(Y).
C1_YearAndWeekInRange ==
  op = "dateToRailway" =>
    /\ InRailwayYear(arg.date, ret.railwayYear)
    /\ \A y \in NearYears : InRailwayYear(arg.date, y) => y = ret.railwayYear
    /\ ret.railWeek >= 1
    /\ ret.railWeek <= getTotalWeeks(ret.railwayYear)

\* a January-March date before the calendar year's week one, resolved to the
\* previous railway year and to its 53rd week
C1_Witness ==
  /\ op = "dateToRailway"
  /\ ret.railwayYear = getFullYear(arg.date) - 1
  /\ ret.railWeek = 53

C3_TotalWeeksExact ==
  op = "getTotalWeeks" =>
    /\ ret.weeks \in {52, 53}
    /\ LocalDay(getWeekOneStart(arg.railwayYear + 1))
          - LocalDay(getWeekOneStart(arg.railwayYear)) = 7 * ret.weeks

\* a 53-week year whose two week-one starts lie on different sides of the
\* daylight-saving switch (the span is not a multiple of 24 hours)
C3_Witness ==
  /\ op = "getTotalWeeks"
  /\ ret.weeks = 53
  /\ (getWeekOneStart(arg.railwayYear + 1) - getWeekOneStart(arg.railwayYear)) % 24 # 0

\* C4: for 1 <= W <= getTotalWeeks(Y), converting the start date of
\* railwayToDateRange(Y, W) back with dateToRailway gives railwayYear = Y,
\* railWeek = W and dayOfRailWeek = 1.
C4_RoundTrip ==
  (/\ op = "railwayToDateRange"
   /\ arg.railWeek >= 1
   /\ arg.railWeek <= getTotalWeeks(arg.railwayYear)) =>
    LET c == dateToRailway(ret.startDate)
    IN  /\ c.railwayYear = arg.railwayYear
        /\ c.railWeek = arg.railWeek
        /\ c.dayOfRailWeek = 1

\* C5: dateToRailway(getWeekOneStart(Y)) returns railwayYear = Y, railWeek = 1,
\* dayOfRailWeek = 1, period = 1 and weekInPeriod = 1.
C5_WeekOneStartIsWeekOneDayOne ==
  op = "dateToRailway" =>
    \A y \in NearYears :
      arg.date = getWeekOneStart(y) =>
        /\ ret.railwayYear = y
        /\ ret.railWeek = 1
        /\ ret.dayOfRailWeek = 1
        /\ ret.period = 1
        /\ ret.weekInPeriod = 1

\* dateToRailway has been applied to the week-one start of a railway year
C5_Witness ==
  /\ op = "dateToRailway"
  /\ \E y \in Years : arg.date = getWeekOneStart(y)

\* C6: with c = dateToRailway(d) and r = railwayToDateRange(c.railwayYear,
\* c.railWeek): c.weekOneStart <= r.startDate <= d <= r.endDate (by calendar
\* day), the date lies inside the 7-day range of its week.
C6_DateInsideItsWeek ==
  op = "dateToRailway" =>
    LET r == railwayToDateRange(ret.railwayYear, ret.railWeek)
    IN  /\ LocalDay(ret.weekOneStart) <= LocalDay(r.startDate)
        /\ LocalDay(r.startDate) <= LocalDay(arg.date)
        /\ LocalDay(arg.date) <= LocalDay(r.endDate)

\* C7: the period returned by dateToRailway is in 1..13 and weekInPeriod in
\* 1..4, with period = ceil(railWeek / 4), in 53-week years too.
C7_PeriodInRange ==
  op = "dateToRailway" =>
    /\ ret.period >= 1 /\ ret.period <= 13
    /\ ret.weekInPeriod >= 1 /\ ret.weekInPeriod <= 4
    /\ 4 * (ret.period - 1) < ret.railWeek /\ ret.railWeek <= 4 * ret.period

\* 1 = Saturday, 2 = Sunday, ..., 7 = Friday, from the Gregorian weekday
\* (0 = Sunday .. 6 = Saturday) of a calendar day
RailDayOfWeekday(wd) == ((wd + 1) % 7) + 1

\* C8: dateToRailway(d).dayOfRailWeek agrees with the Gregorian weekday of d
\* under 1 = Saturday .. 7 = Friday, and dayName is the matching name.
C8_DayOfRailWeekIsWeekday ==
  op = "dateToRailway" =>
    /\ ret.dayOfRailWeek = RailDayOfWeekday(WeekdayOfDay(LocalDay(arg.date)))
    /\ ret.dayName = DayNames[RailDayOfWeekday(WeekdayOfDay(LocalDay(arg.date)))]

\* C9: the periods 1..13 of getPeriodDates cover the railway year: period 1
\* starts on getWeekOneStart(Y), each period starts the day after the
\* previous one ends, and period 13 ends on the day before
\* getWeekOneStart(Y+1).
C9_ThirteenPeriodsCoverYear ==
  (op = "getPeriodDates" /\ arg.period <= 13) =>
    /\ arg.period = 1 =>
          LocalDay(ret.startDate) = LocalDay(getWeekOneStart(arg.railwayYear))
    /\ arg.period > 1 =>
          LocalDay(ret.startDate) =
            LocalDay(getPeriodDates(arg.railwayYear, arg.period - 1).endDate) + 1
    /\ arg.period = 13 =>
          LocalDay(ret.endDate) = LocalDay(getWeekOneStart(arg.railwayYear + 1)) - 1

\* the calendar day of the reference payday, 5 December 2025
ReferencePaydayDay == DaysFromCivil(2025, 12, 5)

\* C10: isPayday(d) is true exactly when the whole-day difference
\* d - referencePayday is a multiple of 28, before or after the reference.
C10_PaydayEvery28Days ==
  op = "isPayday" =>
    (ret.payday <=> (LocalDay(arg.date) - ReferencePaydayDay) % 28 = 0)

\* a payday found before the reference, in summer time (the span to the
\* reference is negative and not a multiple of 24 hours)
C10_Witness ==
  /\ op = "isPayday"
  /\ ret.payday
  /\ arg.date < referencePayday
  /\ (referencePayday - setHoursZero(arg.date)) % 24 # 0

\* C11: getNextPayday(d) is the earliest payday on or after d, also for dates
\* before the reference payday: the returned day p is a multiple of 28 days
\* from the reference, p >= d and p - d <= 27.
C11_NextPaydayIsEarliest ==
  op = "getNextPayday" =>
    /\ (LocalDay(ret.date) - ReferencePaydayDay) % 28 = 0
    /\ LocalDay(ret.date) >= LocalDay(arg.date)
    /\ LocalDay(ret.date) - LocalDay(arg.date) <= 27

\* C12: every payday is a Friday that is the day before a new period starts:
\* dateToRailway(d).dayOfRailWeek = 7 and the following day has
\* dayOfRailWeek = 1 and weekInPeriod = 1, in every railway year.
C12_PaydayIsFridayBeforePeriod ==
  (op = "isPayday" /\ ret.payday) =>
    /\ dateToRailway(arg.date).dayOfRailWeek = 7
    /\ dateToRailway(addDate(arg.date, 1)).dayOfRailWeek = 1
    /\ dateToRailway(addDate(arg.date, 1)).weekInPeriod = 1

\* the Anonymous Gregorian (Meeus/Jones/Butcher) algorithm as published:
\* month (3 = March, 4 = April) and day of Easter Sunday
AnonymousGregorian(year) ==
  LET a == year % 19
      b == year \div 100
      c == year % 100
      d == b \div 4
      e == b % 4
      f == (b + 8) \div 25
      g == (b - f + 1) \div 3
      h == (19 * a + b - d - g + 15) % 30
      i == c \div 4
      k == c % 4
      l == (32 + 2 * e + 2 * i - h - k) % 7
      m == (a + 11 * h + 22 * l) \div 451
  IN  [month |-> (h + l - 7 * m + 114) \div 31,
       day   |-> ((h + l - 7 * m + 114) % 31) + 1]

\* C13: getEasterSunday(year) is the month and day of the Anonymous Gregorian
\* algorithm, in the year asked for; 2024 gives 31 March and 2025 gives
\* 20 April.
C13_EasterIsAnonymousGregorian ==
  op = "getEasterSunday" =>
    LET c == CivilFromDays(LocalDay(ret.date))
    IN  /\ c.year = arg.year
        /\ c.month = AnonymousGregorian(arg.year).month
        /\ c.day = AnonymousGregorian(arg.year).day
        /\ arg.year = 2024 => (c.month = 3 /\ c.day = 31)
        /\ arg.year = 2025 => (c.month = 4 /\ c.day = 20)

\* Easter of 2024 computed in the zone with daylight saving: 31 March 2024 is
\* the day the clocks go forward
C13_Witness ==
  /\ op = "getEasterSunday"
  /\ tz = "Europe/London"
  /\ arg.year = 2024
  /\ CivilFromDays(LocalDay(ret.date)).month = 3

\* C14: the date returned by getEasterSunday(year) is a Sunday between
\* 22 March and 25 April of that year, inclusive.
C14_EasterIsSundayInRange ==
  op = "getEasterSunday" =>
    /\ getDay(ret.date) = 0
    /\ LocalDay(ret.date) >= DaysFromCivil(arg.year, 3, 22)
    /\ LocalDay(ret.date) <= DaysFromCivil(arg.year, 4, 25)

\* the latest Easter there is, 25 April (2038)
C14_Witness ==
  /\ op = "getEasterSunday"
  /\ LocalDay(ret.date) = DaysFromCivil(arg.year, 4, 25)

\* the positions of the entries of table h that carry a name, and the date of
\* the entry with that name
EntriesNamed(h, name) == { i \in 1..Len(h) : h[i].name = name }
DateNamed(h, name) == h[CHOOSE i \in 1..Len(h) : h[i].name = name].date

\* C15: getUKBankHolidays(year) has exactly one entry named "Christmas Day",
\* and its date is never a Saturday or a Sunday.
C15_OneChristmasDayOnWeekday ==
  op = "getUKBankHolidays" =>
    /\ Cardinality(EntriesNamed(ret.holidays, "Christmas Day")) = 1
    /\ getDay(DateNamed(ret.holidays, "Christmas Day")) \notin {0, 6}

\* a year whose 25 December is a Saturday: the entry is the substitute day
C15_Witness ==
  /\ op = "getUKBankHolidays"
  /\ WeekdayOfDay(DaysFromCivil(arg.year, 12, 25)) = 6
  /\ LocalDay(DateNamed(ret.holidays, "Christmas Day")) = DaysFromCivil(arg.year, 12, 27)

\* the entry named `name` lies on a Monday-to-Friday, 0..2 days after its
\* nominal day, and on the nominal day itself when that is a weekday
SubstitutedForward(h, name, nominal) ==
  /\ getDay(DateNamed(h, name)) \in 1..5
  /\ LocalDay(DateNamed(h, name)) - nominal \in 0..2
  /\ WeekdayOfDay(nominal) \in 1..5 => LocalDay(DateNamed(h, name)) = nominal

\* C16: the "New Year's Day" and "Boxing Day" entries fall on a Monday to
\* Friday, moved forward from a weekend nominal date by at most 2 days and
\* never backward, and "Christmas Day" and "Boxing Day" never carry the same
\* date.
C16_SubstituteDaysForward ==
  op = "getUKBankHolidays" =>
    /\ SubstitutedForward(ret.holidays, "New Year's Day", DaysFromCivil(arg.year, 1, 1))
    /\ SubstitutedForward(ret.holidays, "Boxing Day", DaysFromCivil(arg.year, 12, 26))
    /\ LocalDay(DateNamed(ret.holidays, "Christmas Day"))
         # LocalDay(DateNamed(ret.holidays, "Boxing Day"))

\* a year whose 26 December is a Sunday: Christmas Day (a Saturday) and
\* Boxing Day are both moved, to the 27th and the 28th
C16_Witness ==
  /\ op = "getUKBankHolidays"
  /\ WeekdayOfDay(DaysFromCivil(arg.year, 12, 26)) = 0
  /\ LocalDay(DateNamed(ret.holidays, "Boxing Day")) = DaysFromCivil(arg.year, 12, 28)
  /\ LocalDay(DateNamed(ret.holidays, "Christmas Day")) = DaysFromCivil(arg.year, 12, 27)

\* C17: the "Advent Sunday" entry is the fourth Sunday before 25 December: a
\* Sunday between 27 November and 3 December, inclusive.
C17_AdventIsFourthSundayBefore ==
  op = "getUKBankHolidays" =>
    /\ getDay(DateNamed(ret.holidays, "Advent Sunday")) = 0
    /\ LocalDay(DateNamed(ret.holidays, "Advent Sunday")) >= DaysFromCivil(arg.year, 11, 27)
    /\ LocalDay(DateNamed(ret.holidays, "Advent Sunday")) <= DaysFromCivil(arg.year, 12, 3)

\* the entry named `name` lies `offset` calendar days from Easter Sunday of
\* the year and on weekday wd (0 = Sunday .. 6 = Saturday)
EasterOffset(h, year, name, offset, wd) ==
  /\ Cardinality(EntriesNamed(h, name)) = 1
  /\ LocalDay(DateNamed(h, name)) - LocalDay(getEasterSunday(year)) = offset
  /\ getDay(DateNamed(h, name)) = wd

\* C18: the Easter-derived entries lie at fixed day offsets from
\* getEasterSunday(year): Shrove Tuesday -47, Ash Wednesday -46, Mothering
\* Sunday (the entry "Mother's Day (UK)") -21, Palm Sunday -7, Maundy
\* Thursday -3, Good Friday -2, Easter Sunday 0, Easter Monday +1, Ascension
\* +39, Pentecost +49, and each on the weekday of its name.
C18_EasterOffsets ==
  op = "getUKBankHolidays" =>
    /\ EasterOffset(ret.holidays, arg.year, "Shrove Tuesday", 0 - 47, 2)
    /\ EasterOffset(ret.holidays, arg.year, "Ash Wednesday", 0 - 46, 3)
    /\ EasterOffset(ret.holidays, arg.year, "Mother's Day (UK)", 0 - 21, 0)
    /\ EasterOffset(ret.holidays, arg.year, "Palm Sunday", 0 - 7, 0)
    /\ EasterOffset(ret.holidays, arg.year, "Maundy Thursday", 0 - 3, 4)
    /\ EasterOffset(ret.holidays, arg.year, "Good Friday", 0 - 2, 5)
    /\ EasterOffset(ret.holidays, arg.year, "Easter Sunday", 0, 0)
    /\ EasterOffset(ret.holidays, arg.year, "Easter Monday", 1, 1)
    /\ EasterOffset(ret.holidays, arg.year, "Ascension Day", 39, 4)
    /\ EasterOffset(ret.holidays, arg.year, "Pentecost", 49, 0)

\* an Easter on the night the clocks go forward: Easter Monday is in summer
\* time, Easter Sunday's midnight is not, and Shrove Tuesday falls in the
\* month before Easter's
C18_Witness ==
  /\ op = "getUKBankHolidays"
  /\ UtcOffset(DateNamed(ret.holidays, "Easter Monday"))
       # UtcOffset(DateNamed(ret.holidays, "Easter Sunday"))
  /\ getMonth(DateNamed(ret.holidays, "Shrove Tuesday"))
       < getMonth(DateNamed(ret.holidays, "Easter Sunday"))

\* C20: getDayLength at the June solstice returns a larger dayLengthHours
\* than at the December solstice, and daysGettingLonger is true from the
\* December solstice to the June solstice and false from June to December:
\* it has opposite values three days before and three days after each
\* solstice (21 June, 21 December).
C20_SolsticeOrderAndTrend ==
  op = "getDayLength" =>
    /\ (Civil(arg.date).month = 6 /\ Civil(arg.date).day = 21) =>
          \A h \in Hours :
            ret.dayLengthHours >
              getDayLength(FromLocal(DaysFromCivil(Civil(arg.date).year, 12, 21), h)).dayLengthHours
    /\ (LocalDay(arg.date) <= DaysFromCivil(Civil(arg.date).year, 6, 18)
          \/ LocalDay(arg.date) >= DaysFromCivil(Civil(arg.date).year, 12, 24)) =>
          ret.daysGettingLonger
    /\ (LocalDay(arg.date) >= DaysFromCivil(Civil(arg.date).year, 6, 24)
          /\ LocalDay(arg.date) <= DaysFromCivil(Civil(arg.date).year, 12, 18)) =>
          ~ret.daysGettingLonger

\* three days after the June solstice, at a summer-time midnight: more than
\* 16 hours of daylight, and the days are no longer getting longer
C20_Witness ==
  /\ op = "getDayLength"
  /\ tz = "Europe/London"
  /\ Civil(arg.date).month = 6 /\ Civil(arg.date).day = 24
  /\ LocalHour(arg.date) = 0
  /\ ret.dayLengthHours > 1600
  /\ ~ret.daysGettingLonger

\* C19: no engine operation mutates the date object passed to it or any state
\* that outlives the call: across every call the caller's object keeps its
\* time, and an operation called again on it, whatever was called in
\* between, returns the result it returned before (getUKBankHolidays an
\* equal, newly built table).
C19_ArgumentKeptResultsEqual ==
  [][ /\ arg' = arg
      /\ \A f \in FrameOps :
           ret.results[f] # NoArg => ret'.results[f] = ret.results[f] ]_vars

\* a Date object carrying a time of day (which setHours would clear) has been
\* through three calls, one operation twice, dateToRailway and getDayLength
\* among them
C19_Witness ==
  /\ LocalHour(arg.date) = 12
  /\ ret.calls = 3
  /\ Cardinality({ f \in FrameOps : ret.results[f] # NoArg }) = 2
  /\ ret.results["dateToRailway"] # NoArg
  /\ ret.results["getDayLength"] # NoArg

\* C21: railwayToDateRange(Y, W) returns start = getWeekOneStart(Y) +
\* (W-1)*7 days and end = start + 6 days for every W, weeks outside the year
\* included: start is a Saturday and end a Friday, week getTotalWeeks(Y)+1
\* starts on getWeekOneStart(Y+1), and week 0 starts where the last week of
\* year Y-1 starts.
C21_WeekRangeArithmetic ==
  op = "railwayToDateRange" =>
    /\ LocalDay(ret.startDate)
         = LocalDay(getWeekOneStart(arg.railwayYear)) + (arg.railWeek - 1) * 7
    /\ LocalDay(ret.endDate) = LocalDay(ret.startDate) + 6
    /\ LocalHour(ret.startDate) = 0
    /\ LocalHour(ret.endDate) = 0
    /\ getDay(ret.startDate) = 6
    /\ getDay(ret.endDate) = 5
    /\ arg.railWeek = getTotalWeeks(arg.railwayYear) + 1 =>
         ret.startDate = getWeekOneStart(arg.railwayYear + 1)
    /\ arg.railWeek = 0 =>
         ret.startDate =
           railwayToDateRange(arg.railwayYear - 1,
                              getTotalWeeks(arg.railwayYear - 1)).startDate

\* week 54 of a 53-week year, in the zone with daylight saving: the start lies
\* a year of calendar days after a week-one start on the other side of the
\* change of the clocks
C21_Witness ==
  /\ op = "railwayToDateRange"
  /\ tz = "Europe/London"
  /\ arg.railWeek = 54
  /\ getTotalWeeks(arg.railwayYear) = 53
  /\ (ret.startDate - getWeekOneStart(arg.railwayYear)) % 24 # 0

\* C22: for every period p in 1..13, getPeriodDates(Y, p) returns startWeek =
\* (p-1)*4+1 and endWeek = min(4p, getTotalWeeks(Y)) with startWeek <=
\* endWeek, startDate the first day of startWeek, endDate the last day of
\* endWeek, startDate <= endDate, and a span of at most 28 days.
C22_PeriodDates ==
  (op = "getPeriodDates" /\ arg.period >= 1 /\ arg.period <= 13) =>
    /\ ret.startWeek = (arg.period - 1) * 4 + 1
    /\ ret.endWeek = Min(arg.period * 4, getTotalWeeks(arg.railwayYear))
    /\ ret.startWeek <= ret.endWeek
    /\ LocalDay(ret.startDate)
         = LocalDay(getWeekOneStart(arg.railwayYear)) + (ret.startWeek - 1) * 7
    /\ LocalDay(ret.endDate)
         = LocalDay(getWeekOneStart(arg.railwayYear)) + ret.endWeek * 7 - 1
    /\ ret.startDate <= ret.endDate
    /\ LocalDay(ret.endDate) - LocalDay(ret.startDate) + 1 <= 28

\* period 13 of a 53-week year: it ends with week 52, a week before the year
\* does
C22_Witness ==
  /\ op = "getPeriodDates"
  /\ arg.period = 13
  /\ getTotalWeeks(arg.railwayYear) = 53
  /\ ret.endWeek = 52

\* date t is the nth (n > 0) day of the week wd (0 = Sunday) of month m
\* (1..12) of year y
NthOccurrence(t, y, m, wd, n) ==
  /\ getDay(t) = wd
  /\ Civil(t).year = y
  /\ Civil(t).month = m
  /\ Civil(t).day >= 7 * (n - 1) + 1
  /\ Civil(t).day <= 7 * n
  /\ LocalHour(t) = 0

\* date t is the last day of the week wd of month m of year y: seven days
\* later the month is over
LastOccurrence(t, y, m, wd) ==
  /\ getDay(t) = wd
  /\ Civil(t).year = y
  /\ Civil(t).month = m
  /\ LocalDay(t) + 7 >= DaysFromCivil(y + m \div 12, (m % 12) + 1, 1)
  /\ LocalHour(t) = 0

\* C23: getNthWeekday returns, for n > 0, the nth occurrence of the weekday
\* in the month (right weekday, inside the month, day number in
\* 7(n-1)+1..7n) and, for n = -1, the last one; so Early May Bank Holiday is
\* the first Monday of May, Spring Bank Holiday the last Monday of May,
\* Summer Bank Holiday the last Monday of August, Father's Day the 3rd
\* Sunday of June and Remembrance Sunday the 2nd Sunday of November.
C23_NthWeekday ==
  op = "getUKBankHolidays" =>
    /\ \A month \in 0..11, weekday \in 0..6 :
         /\ \A n \in 1..4 :
              NthOccurrence(getNthWeekday(arg.year, month, weekday, n),
                            arg.year, month + 1, weekday, n)
         /\ LastOccurrence(getNthWeekday(arg.year, month, weekday, 0 - 1),
                           arg.year, month + 1, weekday)
    /\ NthOccurrence(DateNamed(ret.holidays, "Early May Bank Holiday"), arg.year, 5, 1, 1)
    /\ LastOccurrence(DateNamed(ret.holidays, "Spring Bank Holiday"), arg.year, 5, 1)
    /\ LastOccurrence(DateNamed(ret.holidays, "Summer Bank Holiday"), arg.year, 8, 1)
    /\ NthOccurrence(DateNamed(ret.holidays, "Father's Day"), arg.year, 6, 0, 3)
    /\ NthOccurrence(DateNamed(ret.holidays, "Remembrance Sunday"), arg.year, 11, 0, 2)

\* a year whose May begins on a Tuesday: the first Monday is the 7th, the
\* last one the 28th
C23_Witness ==
  /\ op = "getUKBankHolidays"
  /\ Civil(DateNamed(ret.holidays, "Early May Bank Holiday")).day = 7
  /\ Civil(DateNamed(ret.holidays, "Spring Bank Holiday")).day = 28

BandIndex(lunarDay) ==
  Cardinality({ j \in 0..7 :
      lunarDay > (2 * j + 1) * 1845661 + ((2 * j + 1) * 791875) \div 1000000 }) % 8

\* C25: for every date, before or after the reference new moon, lunarDay is
\* in [0, synodicMonth), the phase index is floor(lunarDay / (synodicMonth / 8)
\* + 0.5) mod 8, the name is the one of that index, isSignificant holds exactly
\* for the indices 0, 2, 4, 6; on the day of the reference new moon the phase
\* is New Moon with an illumination near 0.
C25_MoonPhase ==
  op = "getMoonPhase" =>
    /\ ret.lunarDay >= 0
    /\ ret.lunarDay <= 29530588
    /\ ret.phase = BandIndex(ret.lunarDay)
    /\ ret.name = << "New Moon", "Waxing Crescent", "First Quarter", "Waxing Gibbous",
                     "Full Moon", "Waning Gibbous", "Last Quarter", "Waning Crescent" >>[ret.phase + 1]
    /\ ret.isSignificant <=> ret.phase \in {0, 2, 4, 6}
    /\ Civil(arg.date) = [year |-> 2000, month |-> 1, day |-> 6] =>
         /\ ret.phase = 0
         /\ ret.name = "New Moon"
         /\ ret.illumination <= 2

\* a date before the reference new moon, in the last half band of the cycle,
\* which wraps to New Moon
C25_Witness ==
  /\ op = "getMoonPhase"
  /\ arg.date * 60 < knownNewMoonMinutes
  /\ Civil(arg.date).year = 1999
  /\ ret.lunarDay > 15 * 1845661 + 12
  /\ ret.phase = 0

\* the three cases of the hour angle, for a result with dayLengthHours in
\* hundredths of an hour
HourAngleCase(cosHourAngle, dayLengthHours, sunrise, sunset, percent) ==
  /\ cosHourAngle < 0 - 1000000 =>
       dayLengthHours = 2400 /\ sunrise = Null /\ sunset = Null
  /\ cosHourAngle > 1000000 =>
       dayLengthHours = 0 /\ sunrise = Null /\ sunset = Null
  /\ (cosHourAngle >= 0 - 1000000 /\ cosHourAngle <= 1000000) =>
       sunrise # Null /\ sunset # Null
  /\ percent \in 0..100

BranchCase(cosHourAngle, reached) ==
  HourAngleCase(cosHourAngle, (reached.dayLengthHours + 5000) \div 10000,
                reached.sunrise, reached.sunset,
                dayLengthPercent(reached.dayLengthHours))

C27_WholeCalendarDays ==
  op = "dateToRailway" =>
    \A daysSinceStart \in {LocalDay(arg.date) - LocalDay(ret.weekOneStart)} :
      /\ ret.railWeek = daysSinceStart \div 7 + 1
      /\ ret.dayOfRailWeek = (daysSinceStart % 7) + 1

\* C28: for a date in calendar year C the rolled-forward branch of
\* dateToRailway (date >= getWeekOneStart(C + 1)) is never taken: the date
\* resolves to railway year C - 1 or C, never to a year after C.
C28_NeverRolledForward ==
  op = "dateToRailway" =>
    \A C \in {getFullYear(setHoursZero(arg.date))} :
      /\ setHoursZero(arg.date) < getWeekOneStart(C + 1)
      /\ ret.railwayYear \in {C - 1, C}
      /\ ret.railwayYear <= C
      /\ ret.railwayYear = C - 1 <=> setHoursZero(arg.date) < getWeekOneStart(C)
      /\ ret.weekOneStart = getWeekOneStart(ret.railwayYear)

\* the last day of a calendar year, the nearest a date comes to next year's
\* week one, is in the railway year of its own calendar year
C28_Witness ==
  /\ op = "dateToRailway"
  /\ getMonth(arg.date) = 11
  /\ getDate(arg.date) = 31
  /\ LocalHour(arg.date) = 12
  /\ ret.railwayYear = getFullYear(arg.date)
  /\ ret.railWeek >= 40

\* C29: when navigateWeek(delta) has been called k times, some of them before
\* the 150 ms callback of an earlier call has run, then once every pending
\* timer has fired currentDate has moved by exactly k * delta * 7 days and
\* animating is false.
C29_NoLostSteps ==
  ( /\ op \in {"transition", "animationEnd"}
    /\ ret.transitions = << >>
    /\ ret.animationEnds = 0
    /\ \A i \in 1..Len(ret.deltas) : ret.deltas[i] = ret.deltas[1] ) =>
      /\ LocalDay(arg.currentDate) =
           LocalDay(ret.initialDate) + Len(ret.deltas) * ret.deltas[1] * 7
      /\ arg.animating = FALSE

\* C30: the sunrise and sunset times are valid HH:MM clock times: the hour
\* field is in 00..23 and the minute field in 00..59, never 60.
C30_ValidClockTime ==
  op = "getDayLength" =>
    \A time \in {ret.sunrise, ret.sunset} :
      time # Null => (time.hrs \in 0..23 /\ time.mins \in 0..59)

TypeOK ==
  /\ tz \in TimeZones
  /\ op \in {"idle", "getWeekOneStart", "getTotalWeeks", "dateToRailway",
             "railwayToDateRange", "getPeriodDates", "isPayday", "getNextPayday", "getEasterSunday", "getUKBankHolidays", "getDayLength", "getMoonPhase"}
====
